---- MODULE Spec2Model ----
(***************************************************************************)
(* colstodian: the colour-with-alpha value (src/color/color_alpha.rs).     *)
(*                                                                         *)
(* ColorAlpha<Spc, A> is a Vec4 with two compile-time tags; here the tags  *)
(* are fields of the value.  DynamicColorAlpha carries the same raw Vec4   *)
(* and the tags as data.  Every operation of the file is a pure function   *)
(* of its receiver and arguments; the state machine below is a program     *)
(* that holds one typed or one dynamic value and calls these operations on *)
(* it, remembering the calls it made.                                      *)
(*                                                                         *)
(* Numbers.  An f32 is modelled as an extended rational [n, d]: d > 0 is   *)
(* the finite value n/d in lowest terms, 1/0 is +Inf, -1/0 is -Inf and 0/0 *)
(* is NaN, with IEEE-754's rules for the non-finite cases.  Rounding is    *)
(* not modelled: every finite result is exact.                             *)
(***************************************************************************)
EXTENDS Integers, Sequences, FiniteSets, TLC

(***************************************************************************)
(* Bounds of the model.                                                    *)
(***************************************************************************)
\* colour channels of the initial values are i/ChanDen, i in 0..ChanDen
ChanDen == 1
\* alphas of the initial values are i/AlphaDen, i in 0..AlphaDen
AlphaDen == 2
\* the program makes at most MaxCalls calls
MaxCalls == 2

(***************************************************************************)
(* f32 arithmetic on extended rationals.                                   *)
(***************************************************************************)
Abs(i) == IF i < 0 THEN -i ELSE i

Sign(i) == IF i < 0 THEN -1 ELSE IF i > 0 THEN 1 ELSE 0

RECURSIVE GCD(_, _)
GCD(a, b) == IF b = 0 THEN a ELSE GCD(b, a % b)

\* the extended rational n/d, normalised
Rat(n, d) ==
    IF d = 0 THEN [n |-> Sign(n), d |-> 0]
    ELSE LET g == GCD(Abs(n), Abs(d))
             s == Sign(d)
         IN  [n |-> (s * n) \div g, d |-> (s * d) \div g]

NaN == [n |-> 0, d |-> 0]
Inf == [n |-> 1, d |-> 0]
Zero == [n |-> 0, d |-> 1]
One == [n |-> 1, d |-> 1]

IsNaN(a) == a.d = 0 /\ a.n = 0
IsFinite(a) == a.d > 0

Mul(a, b) == Rat(a.n * b.n, a.d * b.d)

Div(a, b) == Rat(a.n * b.d, a.d * b.n)

Add(a, b) ==
    IF a.d = 0 /\ b.d = 0
    THEN (IF a = b THEN a ELSE NaN)
    ELSE Rat(a.n * b.d + b.n * a.d, a.d * b.d)

Neg(a) == [n |-> -a.n, d |-> a.d]

Sub(a, b) == Add(a, Neg(b))

\* a >= b as f32 compares: false when either side is NaN
Geq(a, b) == ~IsNaN(a) /\ ~IsNaN(b) /\ (a = b \/ Sub(a, b).n > 0)

\* f32 `!=`: true when either side is NaN
Ne(a, b) == IsNaN(a) \/ IsNaN(b) \/ a # b

(***************************************************************************)
(* glam::Vec3 / Vec4.                                                      *)
(***************************************************************************)
xyz(v) == <<v[1], v[2], v[3]>>

extend(v, w) == <<v[1], v[2], v[3], w>>

\* Vec3 * f32 and Vec3 / f32
VMul(v, s) == <<Mul(v[1], s), Mul(v[2], s), Mul(v[3], s)>>

VDiv(v, s) == <<Div(v[1], s), Div(v[2], s), Div(v[3], s)>>

VecFinite(v) == \A i \in DOMAIN v : IsFinite(v[i])

(***************************************************************************)
(* The catalogue of spaces and alpha states (tags).  Three spaces stand    *)
(* for the catalogue: one nonlinear (encoded) space, its linear space, and *)
(* a linear space with other primaries.                                    *)
(***************************************************************************)
Spaces == {"EncodedSrgb", "LinearSrgb", "AcesCg"}

AlphaStates == {"Separate", "Premultiplied"}

\* Spc::LinearSpace::SPACE
LinearSpace(space) == IF space = "EncodedSrgb" THEN "LinearSrgb" ELSE space

\* Spc: LinearColorSpace / WorkingColorSpace
IsLinearColorSpace(space) == space = LinearSpace(space)

(***************************************************************************)
(* The transforms of a space pair: ConvertFromRaw<SrcSpace> for DstSpace   *)
(* on the typed path, kolor::ColorConversion::new(src, dst) on the dynamic *)
(* path.  Their coefficients are outside the file; these stand-ins keep    *)
(* what matters to the pipeline: the transfer function is nonlinear,       *)
(* piecewise and invertible, the primaries matrix mixes channels and is    *)
(* invertible.                                                             *)
(***************************************************************************)
Half == Rat(1, 2)
Quarter == Rat(1, 4)
ThreeQuarters == Rat(3, 4)
Two == Rat(2, 1)

\* transfer function of the encoded space, encoded -> linear
Eotf(x) == IF Geq(x, Half) THEN Sub(Mul(Two, x), ThreeQuarters) ELSE Div(x, Two)

\* its inverse, linear -> encoded
Oetf(y) == IF Geq(y, Quarter) THEN Div(Add(y, ThreeQuarters), Two) ELSE Mul(y, Two)

Dot(row, v) == Add(Add(Mul(row[1], v[1]), Mul(row[2], v[2])), Mul(row[3], v[3]))

MatMul(m, v) == <<Dot(m[1], v), Dot(m[2], v), Dot(m[3], v)>>

\* primaries matrix LinearSrgb -> AcesCg and its inverse
SrgbToAcesCg == << <<Half, Half, Zero>>, <<Zero, One, Zero>>, <<Zero, Zero, One>> >>

AcesCgToSrgb == << <<Two, Neg(One), Zero>>, <<Zero, One, Zero>>, <<Zero, Zero, One>> >>

\* stage 1: the source's encoded form -> its linear form
src_transform_raw(src, dst, c) ==
    IF IsLinearColorSpace(src) THEN c
    ELSE <<Eotf(c[1]), Eotf(c[2]), Eotf(c[3])>>

\* stage 3: the source's linear space -> the destination's linear space
linear_part_raw(src, dst, c) ==
    IF LinearSpace(src) = LinearSpace(dst) THEN c
    ELSE IF LinearSpace(dst) = "AcesCg" THEN MatMul(SrgbToAcesCg, c)
    ELSE MatMul(AcesCgToSrgb, c)

\* stage 5: the destination's linear form -> its encoded form
dst_transform_raw(src, dst, c) ==
    IF IsLinearColorSpace(dst) THEN c
    ELSE <<Oetf(c[1]), Oetf(c[2]), Oetf(c[3])>>

(***************************************************************************)
(* The alpha-state transform: ConvertFromAlphaRaw<SrcAlpha> for DstAlpha   *)
(* (and ConvertToAlphaRaw, its mirror).  The typed path divides without a  *)
(* test of alpha: "a divide by 0 will occur and Infs will result"          *)
(* (color_alpha.rs:88-89, 134-135, 236-237).                               *)
(***************************************************************************)
convert_raw(SrcAlpha, DstAlpha, raw, alpha) ==
    IF SrcAlpha = "Separate" /\ DstAlpha = "Premultiplied" THEN VMul(raw, alpha)
    ELSE IF SrcAlpha = "Premultiplied" /\ DstAlpha = "Separate" THEN VDiv(raw, alpha)
    ELSE raw

(***************************************************************************)
(* The blender: ColorBlender::blend_with of the linear interpolation,      *)
(* which has no parameters (Params = ()).                                  *)
(***************************************************************************)
Blender_blend_with(a, b, factor) == Add(a, Mul(Sub(b, a), factor))

(***************************************************************************)
(* Values.                                                                 *)
(***************************************************************************)
ColorAlpha(raw, space, alpha_state) ==
    [kind |-> "ColorAlpha", raw |-> raw, space |-> space, alpha_state |-> alpha_state]

DynamicColorAlpha(raw, space, alpha_state) ==
    [kind |-> "DynamicColorAlpha", raw |-> raw, space |-> space,
     alpha_state |-> alpha_state]

\* Color<Spc, Display>
Color(raw, space) ==
    [kind |-> "Color", raw |-> raw, space |-> space, state |-> "Display"]

DynamicColor(raw, space, state) ==
    [kind |-> "DynamicColor", raw |-> raw, space |-> space, state |-> state]

Ok(value) == [kind |-> "Ok", value |-> value]

\* DowncastError::MismatchedSpace(got, wanted) / MismatchedAlphaState(got, wanted)
Err(error, got, wanted) ==
    [kind |-> "Err", error |-> error, got |-> got, wanted |-> wanted]

(***************************************************************************)
(* ColorAlpha<SrcSpace, SrcAlpha>: the typed operations.                   *)
(***************************************************************************)
ColorAlpha_convert(self, DstSpace, DstAlpha) ==
    LET alpha == self.raw[4]
        linear == src_transform_raw(self.space, DstSpace, xyz(self.raw))
        separate == convert_raw(self.alpha_state, "Separate", linear, alpha)
        dst_linear == linear_part_raw(self.space, DstSpace, separate)
        dst_alpha == convert_raw("Separate", DstAlpha, dst_linear, alpha)
        dst == dst_transform_raw(self.space, DstSpace, dst_alpha)
    IN  ColorAlpha(extend(dst, alpha), DstSpace, DstAlpha)

convert_alpha(self, DstAlpha) ==
    LET raw == xyz(self.raw)
        alpha == self.raw[4]
        converted == convert_raw(self.alpha_state, DstAlpha, raw, alpha)
    IN  ColorAlpha(extend(converted, alpha), self.space, DstAlpha)

\* blend_with as it would be if it blended alpha too
blend_with_blending_alpha(self, other, factor) ==
    LET raw1 == self.raw
        raw2 == other.raw
        x == Blender_blend_with(raw1[1], raw2[1], factor)
        y == Blender_blend_with(raw1[2], raw2[2], factor)
        z == Blender_blend_with(raw1[3], raw2[3], factor)
        a == Blender_blend_with(raw1[4], raw2[4], factor)
    IN  ColorAlpha(<<x, y, z, a>>, self.space, "Separate")

blend_with(self, other, factor) ==
    LET raw1 == self.raw
        raw2 == other.raw
        x == Blender_blend_with(raw1[1], raw2[1], factor)
        y == Blender_blend_with(raw1[2], raw2[2], factor)
        z == Blender_blend_with(raw1[3], raw2[3], factor)
    IN  ColorAlpha(<<x, y, z, raw1[4]>>, self.space, "Separate")

blend_alpha_with(self, other, factor) ==
    LET raw1 == self.raw
        raw2 == other.raw
        x == Blender_blend_with(raw1[1], raw2[1], factor)
        y == Blender_blend_with(raw1[2], raw2[2], factor)
        z == Blender_blend_with(raw1[3], raw2[3], factor)
        a == Blender_blend_with(raw1[4], raw2[4], factor)
    IN  ColorAlpha(<<x, y, z, a>>, self.space, "Separate")

blend(self, other, factor) == blend_with(self, other, factor)

blend_alpha(self, other, factor) == blend_alpha_with(self, other, factor)

premultiply(self) ==
    LET raw == xyz(self.raw)
        alpha == self.raw[4]
        converted == convert_raw(self.alpha_state, "Premultiplied", raw, alpha)
    IN  ColorAlpha(extend(converted, alpha), self.space, "Premultiplied")

separate(self) ==
    LET raw == xyz(self.raw)
        alpha == self.raw[4]
        converted == convert_raw(self.alpha_state, "Separate", raw, alpha)
    IN  ColorAlpha(extend(converted, alpha), self.space, "Separate")

ColorAlpha_into_color_no_premultiply(self) == Color(xyz(self.raw), self.space)

ColorAlpha_into_color(self) ==
    IF self.space # LinearSpace(self.space)
    THEN Color(xyz(convert_alpha(self, "Premultiplied").raw), self.space)
    ELSE Color(xyz(self.raw), self.space)

(***************************************************************************)
(* DynamicColorAlpha: the runtime-tagged operations.                       *)
(***************************************************************************)
\* convert_alpha_state as it would be without the test of alpha
convert_alpha_state_unguarded(self, dst_alpha) ==
    LET col ==
            IF self.alpha_state = "Separate" /\ dst_alpha = "Premultiplied"
            THEN VMul(xyz(self.raw), self.raw[4])
            ELSE IF self.alpha_state = "Premultiplied" /\ dst_alpha = "Separate"
            THEN VDiv(xyz(self.raw), self.raw[4])
            ELSE xyz(self.raw)
    IN  DynamicColorAlpha(extend(col, self.raw[4]), self.space, dst_alpha)

\* convert_alpha_state as it would be if the result kept the receiver's tag
convert_alpha_state_keeping_tag(self, dst_alpha) ==
    LET col ==
            IF self.alpha_state = "Separate" /\ dst_alpha = "Premultiplied"
            THEN VMul(xyz(self.raw), self.raw[4])
            ELSE IF self.alpha_state = "Premultiplied" /\ dst_alpha = "Separate"
            THEN (IF Ne(self.raw[4], Zero)
                  THEN VDiv(xyz(self.raw), self.raw[4])
                  ELSE xyz(self.raw))
            ELSE xyz(self.raw)
    IN  DynamicColorAlpha(extend(col, self.raw[4]), self.space, self.alpha_state)

\* convert_alpha_state as it would be with the two match arms exchanged
convert_alpha_state_arms_swapped(self, dst_alpha) ==
    LET col ==
            IF self.alpha_state = "Premultiplied" /\ dst_alpha = "Separate"
            THEN VMul(xyz(self.raw), self.raw[4])
            ELSE IF self.alpha_state = "Separate" /\ dst_alpha = "Premultiplied"
            THEN (IF Ne(self.raw[4], Zero)
                  THEN VDiv(xyz(self.raw), self.raw[4])
                  ELSE xyz(self.raw))
            ELSE xyz(self.raw)
    IN  DynamicColorAlpha(extend(col, self.raw[4]), self.space, dst_alpha)

convert_alpha_state(self, dst_alpha) ==
    LET col ==
            IF self.alpha_state = "Separate" /\ dst_alpha = "Premultiplied"
            THEN VMul(xyz(self.raw), self.raw[4])
            ELSE IF self.alpha_state = "Premultiplied" /\ dst_alpha = "Separate"
            THEN (IF Ne(self.raw[4], Zero)
                  THEN VDiv(xyz(self.raw), self.raw[4])
                  ELSE xyz(self.raw))
            ELSE xyz(self.raw)
    IN  DynamicColorAlpha(extend(col, self.raw[4]), self.space, dst_alpha)

DynamicColorAlpha_into_color(self) ==
    LET color_alpha == convert_alpha_state(self, "Premultiplied")
    IN  DynamicColor(xyz(color_alpha.raw), self.space, "Display")

DynamicColorAlpha_into_color_no_premultiply(self) ==
    DynamicColor(xyz(self.raw), self.space, "Display")

\* convert as it would be without `self.space = dst_space`
DynamicColorAlpha_convert_keeping_space(self, dst_space, dst_alpha) ==
    LET s1 == [self EXCEPT !.raw =
                   extend(src_transform_raw(self.space, dst_space, xyz(self.raw)), One)]
        s2 == convert_alpha_state(s1, "Separate")
        s3 == [s2 EXCEPT !.raw =
                   extend(linear_part_raw(self.space, dst_space, xyz(s2.raw)), One)]
        s4 == convert_alpha_state(s3, dst_alpha)
    IN  [s4 EXCEPT !.raw =
             extend(dst_transform_raw(self.space, dst_space, xyz(s4.raw)), One)]

DynamicColorAlpha_convert(self, dst_space, dst_alpha) ==
    LET \* linearize
        s1 == [self EXCEPT !.raw =
                   extend(src_transform_raw(self.space, dst_space, xyz(self.raw)), One)]
        \* separate
        s2 == convert_alpha_state(s1, "Separate")
        \* linear color conversion
        s3 == [s2 EXCEPT !.raw =
                   extend(linear_part_raw(self.space, dst_space, xyz(s2.raw)), One)]
        \* convert to dst alpha state
        s4 == convert_alpha_state(s3, dst_alpha)
        \* dst transform
        s5 == [s4 EXCEPT !.raw =
                   extend(dst_transform_raw(self.space, dst_space, xyz(s4.raw)), One)]
    IN  [s5 EXCEPT !.space = dst_space]

downcast_convert(self, DstSpace, DstAlpha) ==
    LET dst == DynamicColorAlpha_convert(self, DstSpace, DstAlpha)
    IN  ColorAlpha(dst.raw, DstSpace, DstAlpha)

\* downcast as it would be if it tested the alpha state before the space
downcast_alpha_state_first(self, Spc, A) ==
    IF self.alpha_state # A
    THEN Err("MismatchedAlphaState", self.alpha_state, A)
    ELSE IF self.space # Spc
    THEN Err("MismatchedSpace", self.space, Spc)
    ELSE Ok(ColorAlpha(self.raw, Spc, A))

downcast(self, Spc, A) ==
    IF self.space # Spc
    THEN Err("MismatchedSpace", self.space, Spc)
    ELSE IF self.alpha_state # A
    THEN Err("MismatchedAlphaState", self.alpha_state, A)
    ELSE Ok(ColorAlpha(self.raw, Spc, A))

(***************************************************************************)
(* The byte conversions, with f32 rounding.  to_u8 and from_u8 scale by    *)
(* 255.0, and whether the round trip gives the bytes back is a matter of   *)
(* rounding; so here an f32 is the binary number m * 2^e with a mantissa   *)
(* m of MantissaBits bits (or m = 0), and the division and multiplication  *)
(* by 255.0 round to nearest, ties to even, as the hardware does.  The     *)
(* values met lie in [2^-8, 2^8], far from overflow and subnormals.        *)
(***************************************************************************)
\* u8::MAX and the literal 255.0
U8Max == 255
\* bits of an f32 mantissa, the implicit one included
MantissaBits == 24

RECURSIVE Pow2(_)
Pow2(k) == IF k = 0 THEN 1 ELSE 2 * Pow2(k - 1)

F32(m, e) == [m |-> m, e |-> e]

\* m * 2^e with the mantissa brought to MantissaBits bits, m > 0 too small
RECURSIVE F32Normalize(_, _)
F32Normalize(m, e) ==
    IF m = 0 THEN F32(0, 0)
    ELSE IF m >= Pow2(MantissaBits - 1) THEN F32(m, e)
    ELSE F32Normalize(2 * m, e - 1)

\* the quotient q (with remainder r of den) rounded to nearest, ties to even;
\* a carry out of the mantissa moves the exponent
F32RoundNearestEven(q, r, den, e) ==
    LET up == 2 * r > den \/ (2 * r = den /\ q % 2 = 1)
        m == IF up THEN q + 1 ELSE q
    IN  IF m = Pow2(MantissaBits) THEN F32(Pow2(MantissaBits - 1), e + 1)
        ELSE F32(m, e)

\* long division: k more bits of q + r/den
RECURSIVE LongDivide(_, _, _, _)
LongDivide(q, r, den, k) ==
    IF k = 0 THEN <<q, r>>
    ELSE LongDivide(2 * q + ((2 * r) \div den), (2 * r) % den, den, k - 1)

\* `x as f32` of a u8: exact
u8_as_f32(x) == F32Normalize(x, 0)

\* f32 / 255.0
F32DivBy255(v) ==
    IF v.m = 0 THEN v
    ELSE LET q0 == v.m \div U8Max
             r0 == v.m % U8Max
             \* the quotient has 16 or 17 bits: 8 or 7 more make the mantissa
             k == IF q0 >= Pow2(16) THEN 7 ELSE 8
             qr == LongDivide(q0, r0, U8Max, k)
         IN  F32RoundNearestEven(qr[1], qr[2], U8Max, v.e - k)

\* f32 * 255.0
F32MulBy255(v) ==
    IF v.m = 0 THEN v
    ELSE LET \* 255 m = 256 q + r
             q == v.m - ((v.m + U8Max) \div 256)
             r == (256 - (v.m % 256)) % 256
         IN  IF q >= Pow2(MantissaBits - 1)
             THEN F32RoundNearestEven(q, r, 256, v.e + 8)
             ELSE F32RoundNearestEven(2 * q + (r \div 128), r % 128, 128, v.e + 7)

\* f32::round: to the nearest integer, halves away from zero (v >= 0)
F32Round(v) ==
    IF v.e >= 0 THEN v.m * Pow2(v.e)
    ELSE IF -v.e > MantissaBits THEN 0
    ELSE LET unit == Pow2(-v.e)
         IN  (v.m \div unit) + (IF 2 * (v.m % unit) >= unit THEN 1 ELSE 0)

\* f32 `as u8` of a whole number: saturating
as_u8(i) == IF i < 0 THEN 0 ELSE IF i > U8Max THEN U8Max ELSE i

\* to_u8 as it would be if it scaled by 256.0
f32_to_u8_scaling_by_256(x) == as_u8(F32Round(F32(x.m, x.e + 8)))

f32_to_u8(x) == as_u8(F32Round(F32MulBy255(x)))

u8_to_f32(x) == F32DivBy255(u8_as_f32(x))

\* [u8; 4]
U8Array(bytes) == [kind |-> "U8Array", bytes |-> bytes]

\* a ColorAlpha whose raw numbers are held as binary f32 values
ColorAlphaF32(raw, space, alpha_state) ==
    [kind |-> "ColorAlpha(f32)", raw |-> raw, space |-> space,
     alpha_state |-> alpha_state]

to_u8(self) ==
    <<f32_to_u8(self.raw[1]), f32_to_u8(self.raw[2]), f32_to_u8(self.raw[3]),
      f32_to_u8(self.raw[4])>>

from_u8(encoded, Spc, A) ==
    ColorAlphaF32(<<u8_to_f32(encoded[1]), u8_to_f32(encoded[2]),
                    u8_to_f32(encoded[3]), u8_to_f32(encoded[4])>>, Spc, A)

(***************************************************************************)
(* The program: it holds one value (cur), typed or dynamic, and calls the  *)
(* operations above on it.  A call that returns a colour-with-alpha of the *)
(* same family replaces cur by the result (x = x.op(..)); downcast borrows *)
(* cur (&self); downcast_convert leaves the program with the typed result. *)
(* ret is what the last call returned, ncalls the number of calls made and *)
(* calls the last two of them, each with its receiver and arguments.  The  *)
(* program ends when it has stripped the alpha (a Color or DynamicColor)   *)
(* or got an error.                                                        *)
(***************************************************************************)
VARIABLES cur, ret, calls, ncalls

vars == <<cur, ret, calls, ncalls>>

NoValue == [kind |-> "None"]

Chans == {Rat(i, ChanDen) : i \in 0..ChanDen}

Alphas == {Rat(i, AlphaDen) : i \in 0..AlphaDen}

\* the colours of the initial values: every channel value in every position
Colours == {<<Rat(i, ChanDen), Rat(ChanDen - i, ChanDen), Half>> : i \in 0..ChanDen}

\* the second operand of a blend
Others == {<<One, Zero, Quarter, One>>}

\* the blend factors: the two ends, between them and outside them
Factors == {Zero, Half, One, Two}

Call(op, self, space, alpha, other, factor) ==
    [op |-> op, self |-> self, space |-> space, alpha |-> alpha, other |-> other,
     factor |-> factor]

NoArg == "-"

Running ==
    /\ ncalls < MaxCalls
    /\ ret.kind \notin {"Color", "DynamicColor", "Err"}

IsTyped == cur.kind = "ColorAlpha"

IsDynamic == cur.kind = "DynamicColorAlpha"

\* the spaces with a byte form (Spc: AsU8Array)
AsU8ArraySpaces == {"EncodedSrgb"}

\* the byte arrays the program may start from: every byte in every position
ByteArrays ==
    {<<x, U8Max - x, (x + 85) % (U8Max + 1), (x + 170) % (U8Max + 1)>> :
        x \in 0..U8Max}

\* ColorAlpha::new / DynamicColorAlpha::new, or four bytes to decode
Init ==
    /\ \/ \E c \in Colours, a \in Alphas, s \in Spaces, st \in AlphaStates :
             \/ cur = ColorAlpha(extend(c, a), s, st)
             \/ cur = DynamicColorAlpha(extend(c, a), s, st)
       \/ \E encoded \in ByteArrays : cur = U8Array(encoded)
    /\ ret = NoValue
    /\ calls = <<>>
    /\ ncalls = 0

\* the call is remembered, and the one before it
Remember(call) ==
    /\ calls' = IF calls = <<>> THEN <<call>> ELSE <<calls[Len(calls)], call>>
    /\ ncalls' = ncalls + 1

\* a call whose result becomes the value the program holds
Chain(op, space, alpha, other, factor, result) ==
    /\ cur' = result
    /\ ret' = result
    /\ Remember(Call(op, cur, space, alpha, other, factor))

\* a call whose result is kept beside the value the program holds
Keep(op, space, alpha, result) ==
    /\ cur' = cur
    /\ ret' = result
    /\ Remember(Call(op, cur, space, alpha, <<>>, Zero))

TypedConvert ==
    /\ Running /\ IsTyped
    /\ \E DstSpace \in Spaces, DstAlpha \in AlphaStates :
          Chain("ColorAlpha::convert", DstSpace, DstAlpha, <<>>, Zero,
                ColorAlpha_convert(cur, DstSpace, DstAlpha))

TypedConvertAlpha ==
    /\ Running /\ IsTyped
    /\ \E DstAlpha \in AlphaStates :
          Chain("convert_alpha", NoArg, DstAlpha, <<>>, Zero,
                convert_alpha(cur, DstAlpha))

TypedPremultiply ==
    /\ Running /\ IsTyped
    /\ IsLinearColorSpace(cur.space)
    /\ Chain("premultiply", NoArg, NoArg, <<>>, Zero, premultiply(cur))

TypedSeparate ==
    /\ Running /\ IsTyped
    /\ IsLinearColorSpace(cur.space)
    /\ Chain("separate", NoArg, NoArg, <<>>, Zero, separate(cur))

\* impl<Spc: WorkingColorSpace> ColorAlpha<Spc, Separate>
CanBlend ==
    /\ Running /\ IsTyped
    /\ IsLinearColorSpace(cur.space)
    /\ cur.alpha_state = "Separate"

Blend ==
    /\ CanBlend
    /\ \E raw2 \in Others, factor \in Factors :
          Chain("blend", NoArg, NoArg, raw2, factor,
                blend(cur, ColorAlpha(raw2, cur.space, "Separate"), factor))

BlendAlpha ==
    /\ CanBlend
    /\ \E raw2 \in Others, factor \in Factors :
          Chain("blend_alpha", NoArg, NoArg, raw2, factor,
                blend_alpha(cur, ColorAlpha(raw2, cur.space, "Separate"), factor))

BlendWith ==
    /\ CanBlend
    /\ \E raw2 \in Others, factor \in Factors :
          Chain("blend_with", NoArg, NoArg, raw2, factor,
                blend_with(cur, ColorAlpha(raw2, cur.space, "Separate"), factor))

BlendAlphaWith ==
    /\ CanBlend
    /\ \E raw2 \in Others, factor \in Factors :
          Chain("blend_alpha_with", NoArg, NoArg, raw2, factor,
                blend_alpha_with(cur, ColorAlpha(raw2, cur.space, "Separate"), factor))

TypedIntoColor ==
    /\ Running /\ IsTyped
    /\ Keep("ColorAlpha::into_color", NoArg, NoArg, ColorAlpha_into_color(cur))

TypedIntoColorNoPremultiply ==
    /\ Running /\ IsTyped
    /\ Keep("ColorAlpha::into_color_no_premultiply", NoArg, NoArg,
            ColorAlpha_into_color_no_premultiply(cur))

DynIntoColor ==
    /\ Running /\ IsDynamic
    /\ Keep("DynamicColorAlpha::into_color", NoArg, NoArg,
            DynamicColorAlpha_into_color(cur))

DynIntoColorNoPremultiply ==
    /\ Running /\ IsDynamic
    /\ Keep("DynamicColorAlpha::into_color_no_premultiply", NoArg, NoArg,
            DynamicColorAlpha_into_color_no_premultiply(cur))

DynConvert ==
    /\ Running /\ IsDynamic
    /\ \E dst_space \in Spaces, dst_alpha \in AlphaStates :
          Chain("DynamicColorAlpha::convert", dst_space, dst_alpha, <<>>, Zero,
                DynamicColorAlpha_convert(cur, dst_space, dst_alpha))

DynDowncastConvert ==
    /\ Running /\ IsDynamic
    /\ \E DstSpace \in Spaces, DstAlpha \in AlphaStates :
          Chain("downcast_convert", DstSpace, DstAlpha, <<>>, Zero,
                downcast_convert(cur, DstSpace, DstAlpha))

DynConvertAlphaState ==
    /\ Running /\ IsDynamic
    /\ \E dst_alpha \in AlphaStates :
          Chain("convert_alpha_state", NoArg, dst_alpha, <<>>, Zero,
                convert_alpha_state(cur, dst_alpha))

DynDowncast ==
    /\ Running /\ IsDynamic
    /\ \E Spc \in Spaces, A \in AlphaStates :
          Keep("downcast", Spc, A, downcast(cur, Spc, A))

FromU8 ==
    /\ Running
    /\ cur.kind = "U8Array"
    /\ \E Spc \in AsU8ArraySpaces, A \in AlphaStates :
          Chain("from_u8", Spc, A, <<>>, Zero, from_u8(cur.bytes, Spc, A))

ToU8 ==
    /\ Running
    /\ cur.kind = "ColorAlpha(f32)"
    /\ cur.space \in AsU8ArraySpaces
    /\ Keep("to_u8", NoArg, NoArg, U8Array(to_u8(cur)))

Next ==
    \/ FromU8
    \/ ToU8
    \/ TypedConvert
    \/ TypedConvertAlpha
    \/ TypedPremultiply
    \/ TypedSeparate
    \/ Blend
    \/ BlendAlpha
    \/ BlendWith
    \/ BlendAlphaWith
    \/ TypedIntoColor
    \/ TypedIntoColorNoPremultiply
    \/ DynIntoColor
    \/ DynIntoColorNoPremultiply
    \/ DynConvert
    \/ DynDowncastConvert
    \/ DynConvertAlphaState
    \/ DynDowncast

Spec == Init /\ [][Next]_vars

(***************************************************************************)
(* Reading the calls made.                                                 *)
(***************************************************************************)
Called == calls # <<>>

\* the last call: its name, receiver and arguments
Last == calls[Len(calls)]

\* the call before the last, when two calls were made
Prev == calls[1]

\* the typed value with the same raw numbers and the corresponding tags
AsTyped(d) == ColorAlpha(d.raw, d.space, d.alpha_state)

\* the receiver of the last call held real numbers (no Inf, no NaN)
LastFinite == VecFinite(Last.self.raw)

(***************************************************************************)
(* C1.  The checked downcast is decided by the tags alone: it succeeds     *)
(* exactly when the stored space and alpha state equal the requested ones, *)
(* returning the stored raw numbers under the requested tags; it fails     *)
(* with MismatchedSpace whenever the spaces differ (whatever the alpha     *)
(* states), and with MismatchedAlphaState when only the alpha states       *)
(* differ.  The dynamic value is left as it was.                           *)
(***************************************************************************)
C1_DowncastContract ==
    (Called /\ Last.op = "downcast") =>
        LET d == Last.self
            Spc == Last.space
            A == Last.alpha
        IN  /\ cur = d
            /\ (ret.kind = "Ok") <=> (d.space = Spc /\ d.alpha_state = A)
            /\ ret.kind \in {"Ok", "Err"}
            /\ ret.kind = "Ok" => ret.value = ColorAlpha(d.raw, Spc, A)
            /\ d.space # Spc => ret = Err("MismatchedSpace", d.space, Spc)
            /\ (d.space = Spc /\ d.alpha_state # A) =>
                   ret = Err("MismatchedAlphaState", d.alpha_state, A)

\* a downcast that succeeded, then one where both the space and the alpha
\* state differ from the requested ones
C1_Witness ==
    /\ ncalls = 2
    /\ Prev.op = "downcast"
    /\ Last.op = "downcast"
    /\ Prev.self.space = Prev.space
    /\ Prev.self.alpha_state = Prev.alpha
    /\ Last.self.space # Last.space
    /\ Last.self.alpha_state # Last.alpha
    /\ ret.kind = "Err"

(***************************************************************************)
(* C2.  DynamicColorAlpha::convert passes alpha through: the alpha of the  *)
(* result equals the alpha of the receiver.                                *)
(***************************************************************************)
C2_ConvertKeepsAlpha ==
    (Called /\ Last.op = "DynamicColorAlpha::convert") =>
        cur.raw[4] = Last.self.raw[4]

(***************************************************************************)
(* C3.  DynamicColorAlpha::convert and the typed convert agree: on the     *)
(* same raw numbers (alpha not 0) with corresponding tags and the same     *)
(* destination, they return the same three colour channels.                *)
(***************************************************************************)
C3_DynamicConvertMatchesTyped ==
    (/\ Called
     /\ Last.op = "DynamicColorAlpha::convert"
     /\ LastFinite
     /\ Last.self.raw[4] # Zero) =>
        xyz(cur.raw) =
            xyz(ColorAlpha_convert(AsTyped(Last.self), Last.space, Last.alpha).raw)

(***************************************************************************)
(* C4.  The typed convert to the value's own space and alpha state returns *)
(* the four raw numbers it was given, for every raw value.                 *)
(***************************************************************************)
C4_ConvertToOwnPairIsIdentity ==
    (/\ Called
     /\ Last.op = "ColorAlpha::convert"
     /\ LastFinite
     /\ Last.space = Last.self.space
     /\ Last.alpha = Last.self.alpha_state) =>
        cur.raw = Last.self.raw

(***************************************************************************)
(* Calls by what they ask for.                                             *)
(***************************************************************************)
\* the typed calls that separate: separate(), convert_alpha::<Separate>()
LastTypedSeparates ==
    \/ Last.op = "separate"
    \/ (Last.op = "convert_alpha" /\ Last.alpha = "Separate")

\* the dynamic call that separates: convert_alpha_state(Separate)
LastDynSeparates == Last.op = "convert_alpha_state" /\ Last.alpha = "Separate"

\* the typed calls that premultiply: premultiply(), convert_alpha::<Premultiplied>()
LastTypedPremultiplies ==
    \/ Last.op = "premultiply"
    \/ (Last.op = "convert_alpha" /\ Last.alpha = "Premultiplied")

\* the dynamic call that premultiplies: convert_alpha_state(Premultiplied)
LastDynPremultiplies == Last.op = "convert_alpha_state" /\ Last.alpha = "Premultiplied"

\* the receiver of the last call was Premultiplied with alpha 0
LastPremultipliedZeroAlpha ==
    /\ Last.self.alpha_state = "Premultiplied"
    /\ LastFinite
    /\ Last.self.raw[4] = Zero

\* what f32 division by zero makes of a finite channel
DivByZero(c) == IF c.n = 0 THEN NaN ELSE IF c.n > 0 THEN Inf ELSE Neg(Inf)

\* p is the product c * a of finite numbers
IsProduct(p, c, a) == IsFinite(p) /\ p.n * c.d * a.d = c.n * a.n * p.d

C6_AlphaRoundTrip ==
    (/\ ncalls >= 2
     /\ \/ Prev.op = "premultiply" /\ Last.op = "separate"
        \/ /\ Prev.op = "convert_alpha_state" /\ Prev.alpha = "Premultiplied"
           /\ LastDynSeparates
     /\ Prev.self.alpha_state = "Separate"
     /\ VecFinite(Prev.self.raw)
     /\ Prev.self.raw[4].n > 0) =>
        /\ cur.raw = Prev.self.raw
        /\ cur.alpha_state = "Separate"
        /\ cur.space = Prev.self.space
        /\ cur.kind = Prev.self.kind

\* the dynamic round trip was made on a value whose alpha is neither 0 nor 1
\* and that has a colour channel that is not 0
C6_Witness ==
    /\ ncalls >= 2
    /\ Prev.op = "convert_alpha_state" /\ Prev.alpha = "Premultiplied"
    /\ LastDynSeparates
    /\ Prev.self.alpha_state = "Separate"
    /\ Prev.self.raw[4] = Half
    /\ Prev.self.raw[2] = One
    /\ Last.self.raw[2] = Half

(***************************************************************************)
(* C7.  Premultiply correctness.  Premultiplying a Separate value (c, a)   *)
(* of real numbers yields (c*a, a) on every colour channel, for every      *)
(* alpha including 0; premultiplying a Premultiplied value returns it      *)
(* unchanged.  This holds of premultiply(), convert_alpha::<Premultiplied> *)
(* and convert_alpha_state(Premultiplied).                                 *)
(***************************************************************************)
C7_PremultiplyCorrect ==
    (/\ Called
     /\ LastTypedPremultiplies \/ LastDynPremultiplies
     /\ LastFinite) =>
        /\ cur.raw[4] = Last.self.raw[4]
        /\ cur.alpha_state = "Premultiplied"
        /\ cur.space = Last.self.space
        /\ Last.self.alpha_state = "Separate" =>
               \A i \in 1..3 :
                   IsProduct(cur.raw[i], Last.self.raw[i], Last.self.raw[4])
        /\ Last.self.alpha_state = "Premultiplied" => cur.raw = Last.self.raw

\* the dynamic path has premultiplied a Separate value with alpha 1/2
C7_Witness ==
    /\ Called
    /\ LastDynPremultiplies
    /\ Last.self.alpha_state = "Separate"
    /\ Last.self.raw[4] = Half
    /\ Last.self.raw[2] = One
    /\ cur.raw[2] = Half

(***************************************************************************)
(* C8.  Blending touches alpha only in the *_alpha* variants.  blend and   *)
(* blend_with return the first operand's alpha and, on each colour         *)
(* channel, the blender applied to the two operands' channels with the     *)
(* factor as given (not clamped); blend_alpha and blend_alpha_with do the  *)
(* same on the colour channels and set alpha to the blender applied to the *)
(* two alphas.  The result stays Separate in the operands' space.  With    *)
(* the linear-interpolation blender and operands of real numbers, factor 0 *)
(* returns the first operand's colour channels and factor 1 the second's.  *)
(***************************************************************************)
LastBlends == Last.op \in {"blend", "blend_with"}

LastBlendsAlpha == Last.op \in {"blend_alpha", "blend_alpha_with"}

C8_BlendAlphaOnlyInAlphaVariants ==
    (Called /\ (LastBlends \/ LastBlendsAlpha)) =>
        LET raw1 == Last.self.raw
            raw2 == Last.other
            factor == Last.factor
        IN  /\ \A i \in 1..3 :
                   cur.raw[i] = Blender_blend_with(raw1[i], raw2[i], factor)
            /\ LastBlends => cur.raw[4] = raw1[4]
            /\ LastBlendsAlpha =>
                   cur.raw[4] = Blender_blend_with(raw1[4], raw2[4], factor)
            /\ cur.alpha_state = "Separate"
            /\ cur.space = Last.self.space
            /\ (LastFinite /\ factor = Zero) => xyz(cur.raw) = xyz(raw1)
            /\ (LastFinite /\ factor = One) => xyz(cur.raw) = xyz(raw2)

\* blend_with has extrapolated (factor 2) between operands whose alphas and
\* colours differ
C8_Witness ==
    /\ Called
    /\ Last.op = "blend_with"
    /\ Last.factor = Two
    /\ LastFinite
    /\ Last.self.raw[4] # Last.other[4]
    /\ xyz(cur.raw) # xyz(Last.self.raw)
    /\ xyz(cur.raw) # xyz(Last.other)

(***************************************************************************)
(* C9.  downcast_convert cannot fail.  What convert(DstSpace, DstAlpha)    *)
(* returns carries the space tag DstSpace and the alpha-state tag          *)
(* DstAlpha, so the checked downcast to (DstSpace, DstAlpha) of it         *)
(* succeeds; and downcast_convert returns exactly the typed value that     *)
(* this checked downcast returns.                                          *)
(***************************************************************************)
C9_DowncastConvertCannotFail ==
    /\ (Called /\ Last.op = "DynamicColorAlpha::convert") =>
           /\ cur.space = Last.space
           /\ cur.alpha_state = Last.alpha
           /\ downcast(cur, Last.space, Last.alpha) =
                  Ok(ColorAlpha(cur.raw, Last.space, Last.alpha))
    /\ (Called /\ Last.op = "downcast_convert") =>
           LET dst == DynamicColorAlpha_convert(Last.self, Last.space, Last.alpha)
               checked == downcast(dst, Last.space, Last.alpha)
           IN  /\ ret.kind = "ColorAlpha"
               /\ checked = Ok(ret)

\* downcast_convert was asked for a space and an alpha state that both
\* differ from the receiver's
C9_Witness ==
    /\ Called
    /\ Last.op = "downcast_convert"
    /\ Last.self.space # Last.space
    /\ Last.self.alpha_state # Last.alpha
    /\ ret.space = Last.space
    /\ ret.alpha_state = Last.alpha

(***************************************************************************)
(* C10.  The dynamic alpha-stripping operations mirror the typed ones.  On *)
(* the same raw numbers with corresponding tags, in every space and alpha  *)
(* state, DynamicColorAlpha::into_color returns the colour channels of the *)
(* typed into_color, and into_color_no_premultiply those of the typed      *)
(* into_color_no_premultiply (the raw colour channels); the dynamic        *)
(* results keep the space tag and are display-referred.                    *)
(***************************************************************************)
C10_DynamicStripMirrorsTyped ==
    /\ (Called /\ Last.op = "DynamicColorAlpha::into_color" /\ LastFinite) =>
           /\ ret.raw = ColorAlpha_into_color(AsTyped(Last.self)).raw
           /\ ret.space = Last.self.space
           /\ ret.state = "Display"
    /\ (/\ Called
        /\ Last.op = "DynamicColorAlpha::into_color_no_premultiply"
        /\ LastFinite) =>
           /\ ret.raw = ColorAlpha_into_color_no_premultiply(AsTyped(Last.self)).raw
           /\ ret.raw = xyz(Last.self.raw)
           /\ ret.space = Last.self.space
           /\ ret.state = "Display"

(***************************************************************************)
(* C11.  The typed into_color premultiplies exactly when the value's space *)
(* is linear.  For a Separate value (c, a) of real numbers in a linear     *)
(* space it returns the colour channels c*a; for a value in a nonlinear    *)
(* (encoded) space it returns c untouched; for a value that is already     *)
(* Premultiplied it returns c untouched.                                   *)
(***************************************************************************)
C11_IntoColorPremultipliesWhenLinear ==
    (Called /\ Last.op = "ColorAlpha::into_color" /\ LastFinite) =>
        LET self == Last.self
        IN  /\ (IsLinearColorSpace(self.space) /\ self.alpha_state = "Separate") =>
                   \A i \in 1..3 : IsProduct(ret.raw[i], self.raw[i], self.raw[4])
            /\ ~IsLinearColorSpace(self.space) => ret.raw = xyz(self.raw)
            /\ self.alpha_state = "Premultiplied" => ret.raw = xyz(self.raw)

(***************************************************************************)
(* C12.  u8 round trip.  For every byte array [r, g, b, a],                *)
(* from_u8([r, g, b, a]).to_u8() returns exactly [r, g, b, a], with        *)
(* from_u8 computing x / 255.0 and to_u8 computing round(v * 255.0) in     *)
(* f32, rounding included.                                                 *)
(***************************************************************************)
C12_U8RoundTrip ==
    (ncalls >= 2 /\ Prev.op = "from_u8" /\ Last.op = "to_u8") =>
        /\ ret = U8Array(Prev.self.bytes)
        /\ Last.self.kind = "ColorAlpha(f32)"
        /\ Last.self.space = Prev.space
        /\ Last.self.alpha_state = Prev.alpha

\* the round trip was made on bytes whose f32 forms are not exact (127/255,
\* 128/255) and came back
C12_Witness ==
    /\ ncalls >= 2
    /\ Prev.op = "from_u8"
    /\ Last.op = "to_u8"
    /\ Prev.self.bytes[1] = 127
    /\ Prev.self.bytes[2] = 128
    /\ Last.self.raw[1] # Last.self.raw[2]
    /\ ret.bytes[1] = 127
    /\ ret.bytes[2] = 128

====
